---- MODULE Spec2Model ----
(***************************************************************************)
(* Auto Invert Bright Images: the content script of src/extension/         *)
(* content.js as a state machine.                                          *)
(*                                                                         *)
(* Spec   : a page of <img> elements, the scan (scanImages) and the load   *)
(*          events the browser delivers afterwards.                        *)
(* FnSpec : the two pure pixel functions (shouldInvert, invertImage)       *)
(*          applied to pixel buffers drawn from bounded sets.              *)
(*                                                                         *)
(* Strings are sequences of one-character strings, so that toLowerCase     *)
(* and endsWith are computed.  A pixel buffer is the sequence of bytes of  *)
(* a Uint8ClampedArray: the byte at JavaScript offset i is data[i + 1].    *)
(* The number of bytes getImageData returns is width * height * 4 in the   *)
(* browser; here the bitmap of an element is a short buffer chosen by the  *)
(* environment, and naturalWidth / naturalHeight are kept as the numbers   *)
(* the eligibility test compares with 120.                                 *)
(***************************************************************************)
EXTENDS Integers, Sequences, FiniteSets, TLC

VARIABLES
    img,        \* the <img> elements of the document: element id -> element
    orig,       \* the elements as the page supplied them (never changes)
    obs,        \* per element: what processImage has done to it so far
    scans,      \* how many times scanImages has run
    buf,        \* FnSpec: the pixel buffer the functions are applied to
    buf0,       \* FnSpec: the buffer as first given
    inverted,   \* FnSpec: how many times invertImage has been applied
    sampled     \* FnSpec: the result of shouldInvert after k inversions

vars == <<img, orig, obs, scans, buf, buf0, inverted, sampled>>

pageVars == <<img, orig, obs, scans>>
fnVars == <<buf, buf0, inverted, sampled>>

----------------------------------------------------------------------------
(* Bounds of the model *)

NumImgs == 2        \* elements in the document
MaxScans == 2       \* invocations of scanImages
MaxEntries == 3     \* cap on the counted entries into processImage
MaxPixels == 21     \* FnSpec: pixels in a buffer (21 pixels give 5 samples)
MaxInvert == 2      \* FnSpec: applications of invertImage

(* Program constants *)

MinSize == 120              \* content.js:79
Stride == 20                \* content.js:158
BrightnessLimit == 200      \* content.js:167
Channels == 3               \* content.js:165
RatioNum == 6               \* content.js:171   (0.6 = 6 / 10)
RatioDen == 10              \* content.js:171
PixelBytes == 4             \* content.js:183
ChannelMax == 255           \* content.js:184

Imgs == 1..NumImgs

----------------------------------------------------------------------------
(* Strings *)

UpperToLower ==
    [c \in {"A", "F", "G", "I"} |->
        CASE c = "A" -> "a" [] c = "F" -> "f" [] c = "G" -> "g" [] c = "I" -> "i"]

\* String.prototype.toLowerCase
ToLowerCase(s) ==
    [k \in 1..Len(s) |-> IF s[k] \in DOMAIN UpperToLower THEN UpperToLower[s[k]] ELSE s[k]]

\* String.prototype.endsWith
EndsWith(s, suffix) ==
    /\ Len(suffix) <= Len(s)
    /\ SubSeq(s, Len(s) - Len(suffix) + 1, Len(s)) = suffix

DotGif == <<".", "g", "i", "f">>

(* The source locators of the page *)
SrcPng == <<"a", ".", "p", "n", "g">>
SrcGif == <<"a", ".", "g", "i", "f">>
SrcGifUpper == <<"A", ".", "G", "I", "F">>
SrcGifMixed == <<"a", ".", "G", "i", "f">>
SrcGifQuery == <<"a", ".", "g", "i", "f", "?", "a">>
SrcNoDot == <<"g", "i", "f">>

PageSrcs == {SrcPng, SrcGif, SrcGifUpper, SrcGifMixed, SrcGifQuery, SrcNoDot}

----------------------------------------------------------------------------
(* Pixel buffers *)

White == <<255, 255, 255, 255>>
Mean200 == <<200, 200, 200, 255>>       \* channel mean exactly 200
Above200 == <<201, 200, 200, 128>>      \* channel sum 601
Dark == <<10, 20, 30, 0>>

Palette == {White, Mean200, Above200, Dark}

RECURSIVE Flatten(_)
Flatten(pixels) ==
    IF pixels = <<>> THEN <<>> ELSE Head(pixels) \o Flatten(Tail(pixels))

----------------------------------------------------------------------------
(* Detection heuristics: shouldInvert, content.js:154-172 *)

\* data[i] of a typed array: undefined beyond its length
InBuffer(data, i) == 0 <= i /\ i < Len(data)

\* (r + g + b) / 3 > 200 on the bytes at offsets i, i+1, i+2.  An offset
\* outside the buffer reads undefined, the sum is NaN and the test is false.
\* For integers s, the double s / 3 exceeds 200 exactly when s > 600.
IsBright(data, i) ==
    /\ InBuffer(data, i) /\ InBuffer(data, i + 1) /\ InBuffer(data, i + 2)
    /\ data[i + 1] + data[i + 2] + data[i + 3] > Channels * BrightnessLimit

\* a loop that visits every 6th pixel instead of every 5th
NextOffset_sixth(i) == i + Stride + PixelBytes

\* i += 20
NextOffset(i) == i + Stride

\* the for loop of shouldInvert: i from 0 in steps of 20 while i < data.length
RECURSIVE SampleLoop(_, _, _)
SampleLoop(data, i, acc) ==
    IF i < Len(data)
    THEN SampleLoop(data, NextOffset(i),
            [samples |-> acc.samples + 1,
             brightPixels |-> acc.brightPixels + (IF IsBright(data, i) THEN 1 ELSE 0),
             offsets |-> acc.offsets \cup {i}])
    ELSE acc

Sample(data) == SampleLoop(data, 0, [samples |-> 0, brightPixels |-> 0, offsets |-> {}])

\* brightPixels / samples > 0.6.  0 / 0 is NaN and the test is false; for
\* counts below 2^50 the rounded quotient exceeds the double 0.6 exactly
\* when 10 * brightPixels > 6 * samples.
RatioExceeds_quarter(brightPixels, samples) ==
    /\ samples > 0
    /\ 4 * brightPixels > samples

RatioExceeds_atLeast(brightPixels, samples) ==
    /\ samples > 0
    /\ RatioDen * brightPixels >= RatioNum * samples

RatioExceeds(brightPixels, samples) ==
    /\ samples > 0
    /\ RatioDen * brightPixels > RatioNum * samples

shouldInvert(data) ==
    LET s == Sample(data) IN RatioExceeds(s.brightPixels, s.samples)

----------------------------------------------------------------------------
(* Pixel inversion: invertImage, content.js:180-191 *)

\* a store into a Uint8ClampedArray: clamped to 0..255, ignored out of range
Clamp(v) == IF v < 0 THEN 0 ELSE IF v > ChannelMax THEN ChannelMax ELSE v

Store(d, i, v) == IF InBuffer(d, i) THEN [d EXCEPT ![i + 1] = Clamp(v)] ELSE d

InvertChannel(v) == ChannelMax - v

\* a loop body that inverts the alpha byte as well
InvertPixel_alpha(d, i) ==
    LET d1 == Store(d, i, InvertChannel(d[i + 1]))
        d2 == Store(d1, i + 1, InvertChannel(d1[i + 2]))
        d3 == Store(d2, i + 2, InvertChannel(d2[i + 3]))
    IN  Store(d3, i + 3, InvertChannel(d3[i + 4]))

\* the body of the loop: red, green and blue of the pixel at offset i
InvertPixel(d, i) ==
    LET d1 == Store(d, i, InvertChannel(d[i + 1]))
        d2 == Store(d1, i + 1, InvertChannel(d1[i + 2]))
    IN  Store(d2, i + 2, InvertChannel(d2[i + 3]))

RECURSIVE InvertLoop(_, _)
InvertLoop(d, i) ==
    IF i < Len(d) THEN InvertLoop(InvertPixel(d, i), i + PixelBytes) ELSE d

\* an inversion that forgets putImageData: the surface keeps the drawn image
invertImage_noWriteBack(canvas, data) ==
    [data |-> InvertLoop(data, 0), canvas |-> canvas]

\* invertImage(ctx, imageData): the buffer is inverted in place and written
\* back to the surface of the canvas (putImageData)
invertImage(canvas, data) ==
    LET d == InvertLoop(data, 0)
    IN  [data |-> d, canvas |-> [canvas EXCEPT !.surface = d]]

NoCanvas == [surface |-> <<>>]

----------------------------------------------------------------------------
(* The canvas and the data URL *)

DataUrlPrefix ==
    <<"d", "a", "t", "a", ":", "i", "m", "a", "g", "e", "/", "p", "n", "g",
      ";", "b", "a", "s", "e", "6", "4", ",">>

HexDigits ==
    <<"0", "1", "2", "3", "4", "5", "6", "7", "8", "9", "a", "b", "c", "d", "e", "f">>

HexValue(c) == CHOOSE v \in 0..15 : HexDigits[v + 1] = c

\* the payload of the data URL: an injective encoding of the bytes of the
\* surface (two digits per byte stand for the base64 of the PNG)
RECURSIVE Encode(_)
Encode(bytes) ==
    IF bytes = <<>> THEN <<>>
    ELSE <<HexDigits[(Head(bytes) \div 16) + 1], HexDigits[(Head(bytes) % 16) + 1]>>
            \o Encode(Tail(bytes))

RECURSIVE Decode(_)
Decode(chars) ==
    IF Len(chars) < 2 THEN <<>>
    ELSE <<16 * HexValue(chars[1]) + HexValue(chars[2])>> \o Decode(Tail(Tail(chars)))

IsDataUrl(src) ==
    /\ Len(src) >= Len(DataUrlPrefix)
    /\ SubSeq(src, 1, Len(DataUrlPrefix)) = DataUrlPrefix

\* the bitmap the browser decodes from a data URL
DecodeDataUrl(src) == Decode(SubSeq(src, Len(DataUrlPrefix) + 1, Len(src)))

\* ctx.drawImage(img, 0, 0): the bitmap of the element lands on the surface
drawImage(canvas, el) == [canvas EXCEPT !.surface = el.bitmap]

\* ctx.getImageData(0, 0, width, height).data: a copy of the surface
getImageData(canvas) == canvas.surface

\* canvas.toDataURL()
toDataURL(canvas) == DataUrlPrefix \o Encode(canvas.surface)

----------------------------------------------------------------------------
(* The elements of the page *)

NoStyle == [filter |-> "", priority |-> "", backgroundColor |-> ""]

FallbackFilter == "invert(1) hue-rotate(180deg) brightness(1.1) contrast(1.1)"

\* sampled pixels (the 1st and the 6th) white, the others dark or translucent
BrightDoc == Flatten(<<White, Above200, Dark, Dark, Mean200, White>>)

\* mostly white, but neither sampled pixel is bright
Photo == Flatten(<<Dark, White, White, White, White, Mean200>>)

PageBitmaps == {BrightDoc, Photo}

PageSizes == {MinSize - 1, MinSize}

Elements ==
    [naturalWidth : PageSizes, naturalHeight : PageSizes,
     src : PageSrcs,
     bitmap : PageBitmaps,          \* what the source decodes to
     crossOrigin : BOOLEAN,         \* pixel access is denied for this source
     complete : BOOLEAN,            \* img.complete
     processed : {"unset"},         \* img.dataset.processed
     onload : {FALSE},              \* img.onload is the script's handler
     style : {NoStyle}]

NoSteps == {}

NoObs == [entries |-> 0, did |-> NoSteps, steps |-> NoSteps,
          outcome |-> "none", denied |-> "none"]

\* what the browser answers during one run of processImage: whether
\* getContext returns a context, for a source whose pixels are denied
\* whether drawImage or getImageData is the call that throws, and which of
\* the calls after the verdict throws.  On an origin-clean canvas the HTML
\* standard gives putImageData and toDataURL no way to throw: fail = "none".
Envs == [ctx : BOOLEAN, denyAt : {"draw", "read"}, fail : {"none"}]

\* a browser in which the write-back or the re-encoding may fail as well
FaultEnvs ==
    [ctx : BOOLEAN, denyAt : {"draw", "read"},
     fail : {"none", "putImageData", "toDataURL"}]

\* img.src = url: the element starts loading the new source
SetSrc(el, url) == [el EXCEPT !.src = url, !.complete = FALSE]

----------------------------------------------------------------------------
(* CSS fallback: applyCssFallback, content.js:207-216 *)

\* a fallback that sets the filter without the "important" priority
applyCssFallback_noPriority(el) ==
    [el EXCEPT !.style = [filter |-> FallbackFilter, priority |-> "",
                          backgroundColor |-> "black"]]

applyCssFallback(el) ==
    [el EXCEPT !.style = [filter |-> FallbackFilter, priority |-> "important",
                          backgroundColor |-> "black"]]

----------------------------------------------------------------------------
(* Image processing entry point: processImage, content.js:71-139 *)

\* the result of one run: the element, and the record of the run
Done(el, ob, steps, outcome, denied) ==
    [el |-> el,
     ob |-> [ob EXCEPT !.did = @ \cup steps, !.steps = steps,
                       !.outcome = outcome, !.denied = denied],
     threw |-> FALSE]

\* an exception leaves processImage: no handler of the script catches it
Threw(el, ob, steps) ==
    [el |-> el,
     ob |-> [ob EXCEPT !.did = @ \cup steps, !.steps = steps, !.outcome = "threw"],
     threw |-> TRUE]

\* a marker that is never set
Mark_never(el) == el

\* img.dataset.processed = "true"
Mark(el) == [el EXCEPT !.processed = "true"]

\* a size test that rejects only images small in both dimensions
IsSmall_both(el) == el.naturalWidth < MinSize /\ el.naturalHeight < MinSize

\* width < 120 || height < 120
IsSmall(el) == el.naturalWidth < MinSize \/ el.naturalHeight < MinSize

\* an extension test that forgets toLowerCase
IsGif_caseSensitive(src) == EndsWith(src, DotGif)

\* img.src.toLowerCase().endsWith(".gif")
IsGif(src) == EndsWith(ToLowerCase(src), DotGif)

\* an inversion that sets the fallback style as well
Invert_withFilter(el, ob, canvas, data, env) ==
    LET steps == {"createElement", "getContext", "drawImage", "getImageData",
                  "shouldInvert", "invertImage"}
        r == invertImage(canvas, data)
    IN  Done(applyCssFallback(SetSrc(el, toDataURL(r.canvas))), ob,
             steps \cup {"putImageData", "toDataURL", "applyCssFallback"},
             "inverted", ob.denied)

\* content.js:134-138: invertImage(ctx, imageData), then
\* img.src = canvas.toDataURL(); neither call is inside a try
Invert(el, ob, canvas, data, env) ==
    LET steps == {"createElement", "getContext", "drawImage", "getImageData",
                  "shouldInvert", "invertImage"}
        r == invertImage(canvas, data)
    IN  IF env.fail = "putImageData" THEN Threw(el, ob, steps)
        ELSE IF env.fail = "toDataURL" THEN Threw(el, ob, steps \cup {"putImageData"})
        ELSE Done(SetSrc(el, toDataURL(r.canvas)), ob,
                  steps \cup {"putImageData", "toDataURL"}, "inverted", ob.denied)

\* a decision with the negation dropped: bright images are the ones kept
Decide_negated(el, ob, canvas, data, env) ==
    LET steps == {"createElement", "getContext", "drawImage", "getImageData",
                  "shouldInvert"}
    IN  IF shouldInvert(data)
        THEN Done(el, ob, steps, "kept", ob.denied)
        ELSE Invert(el, ob, canvas, data, env)

\* content.js:128-138: the verdict, then the inversion and the new source
Decide(el, ob, canvas, data, env) ==
    LET steps == {"createElement", "getContext", "drawImage", "getImageData",
                  "shouldInvert"}
    IN  IF ~shouldInvert(data)
        THEN Done(el, ob, steps, "kept", ob.denied)
        ELSE Invert(el, ob, canvas, data, env)

\* an unavailable context treated like a denied one
NoContext_fallback(el, ob) ==
    Done(applyCssFallback(el), ob,
         {"createElement", "getContext", "applyCssFallback"}, "noctx", ob.denied)

\* if (!ctx) return;
NoContext(el, ob) ==
    Done(el, ob, {"createElement", "getContext"}, "noctx", ob.denied)

\* content.js:101-126: the canvas, the draw and the readback
CanvasAnalysis(el, ob, env) ==
    IF ~env.ctx
    THEN NoContext(el, ob)
    ELSE IF el.crossOrigin /\ env.denyAt = "draw"
    THEN Done(applyCssFallback(el), ob,
              {"createElement", "getContext", "drawImage", "applyCssFallback"},
              "fallback", "draw")
    ELSE IF el.crossOrigin /\ env.denyAt = "read"
    THEN Done(applyCssFallback(el), ob,
              {"createElement", "getContext", "drawImage", "getImageData",
               "applyCssFallback"},
              "fallback", "read")
    ELSE LET canvas == drawImage(NoCanvas, el)
         IN  Decide(el, ob, canvas, getImageData(canvas), env)

processImage(el, ob, env) ==
    LET marked == Mark(el)
        entered == [ob EXCEPT !.entries = @ + 1]
    IN  IF IsSmall(marked) THEN Done(marked, entered, NoSteps, "small", ob.denied)
        ELSE IF IsGif(marked.src) THEN Done(marked, entered, NoSteps, "gif", ob.denied)
        ELSE CanvasAnalysis(marked, entered, env)

----------------------------------------------------------------------------
(* Image scanning: scanImages, content.js:48-61 *)

\* a scan that does not look at the marker
Skip_never(el) == FALSE

\* if (img.dataset.processed === "true") return;
Skip(el) == el.processed = "true"

\* a callback that does not wait for the image to load
ScanOne_eager(el, ob, env) ==
    IF Skip(el) THEN [el |-> el, ob |-> ob, threw |-> FALSE]
    ELSE processImage(el, ob, env)

\* the callback of forEach on one element
ScanOne(el, ob, env) ==
    IF Skip(el) THEN [el |-> el, ob |-> ob, threw |-> FALSE]
    ELSE IF el.complete THEN processImage(el, ob, env)
    ELSE [el |-> [el EXCEPT !.onload = TRUE], ob |-> ob, threw |-> FALSE]

Init ==
    /\ img \in [Imgs -> Elements]
    /\ orig = img
    /\ obs = [i \in Imgs |-> NoObs]
    /\ scans = 0
    /\ buf = <<>> /\ buf0 = <<>> /\ inverted = 0 /\ sampled = <<>>

\* images.forEach(...): every element of the document, in document order.
\* The callback touches no element but its own; an exception that leaves it
\* ends forEach, and the elements after the one that threw are not visited.
ScanAll(envs) ==
    /\ scans < MaxScans
    /\ \A i \in Imgs : obs[i].entries < MaxEntries
    /\ \E env \in [Imgs -> envs] :
        LET r == [i \in Imgs |-> ScanOne(img[i], obs[i], env[i])]
            visited(i) == \A j \in Imgs : j < i => ~r[j].threw
        IN  /\ img' = [i \in Imgs |-> IF visited(i) THEN r[i].el ELSE img[i]]
            /\ obs' = [i \in Imgs |-> IF visited(i) THEN r[i].ob ELSE obs[i]]
    /\ scans' = scans + 1
    /\ UNCHANGED <<orig, fnVars>>

\* scanImages(), in a browser that follows the standard
scanImages == ScanAll(Envs)

\* the element the load event finds: loading has finished, and a data URL
\* has been decoded into the bitmap
Loaded(el) ==
    [el EXCEPT !.complete = TRUE,
               !.bitmap = IF IsDataUrl(el.src) THEN DecodeDataUrl(el.src) ELSE @]

\* the browser fires load on element i; img.onload, if the scan set it,
\* runs processImage(img)
LoadWith(i, envs) ==
    /\ scans >= 1
    /\ ~img[i].complete
    /\ obs[i].entries < MaxEntries
    /\ \E env \in envs :
        LET r == IF img[i].onload
                 THEN processImage(Loaded(img[i]), obs[i], env)
                 ELSE [el |-> Loaded(img[i]), ob |-> obs[i]]
        IN  /\ img' = [img EXCEPT ![i] = r.el]
            /\ obs' = [obs EXCEPT ![i] = r.ob]
    /\ UNCHANGED <<orig, scans, fnVars>>

\* handlers that all close over the last element of the list
LoadFires_lastImage(i) ==
    /\ scans >= 1
    /\ ~img[i].complete
    /\ obs[NumImgs].entries < MaxEntries
    /\ \E env \in Envs :
        LET loaded == [img EXCEPT ![i] = Loaded(img[i])]
            r == processImage(loaded[NumImgs], obs[NumImgs], env)
        IN  /\ img' = IF img[i].onload THEN [loaded EXCEPT ![NumImgs] = r.el] ELSE loaded
            /\ obs' = IF img[i].onload THEN [obs EXCEPT ![NumImgs] = r.ob] ELSE obs
    /\ UNCHANGED <<orig, scans, fnVars>>

LoadFires(i) == LoadWith(i, Envs)

Next == scanImages \/ \E i \in Imgs : LoadFires(i)

Spec == Init /\ [][Next]_vars

----------------------------------------------------------------------------
(* FnSpec: shouldInvert and invertImage on buffers drawn from bounded sets *)

\* a buffer of n pixels: the pixels the loop of shouldInvert visits (every
\* Stride / PixelBytes-th) are chosen one by one, the others are all `filler`
PixelsOf(n, visited, filler) ==
    [k \in 1..n |->
        IF (k - 1) % (Stride \div PixelBytes) = 0
        THEN visited[((k - 1) \div (Stride \div PixelBytes)) + 1]
        ELSE filler]

VisitedCount(n) == (n + (Stride \div PixelBytes) - 1) \div (Stride \div PixelBytes)

PaletteBuffers ==
    UNION { { Flatten(PixelsOf(n, visited, filler)) :
                visited \in [1..VisitedCount(n) -> Palette], filler \in Palette }
            : n \in 0..MaxPixels }

\* one-pixel buffers through which every channel value 0..255 passes
ChannelBuffers ==
    { <<v, ChannelMax - v, (7 * v) % (ChannelMax + 1), v>> : v \in 0..ChannelMax }

FnBuffers == PaletteBuffers \cup ChannelBuffers

NoSample == [samples |-> -1, brightPixels |-> -1, offsets |-> {}, verdict |-> FALSE]

NoPage == <<>>

FnInit ==
    /\ buf \in FnBuffers
    /\ buf0 = buf
    /\ inverted = 0
    /\ sampled = [k \in 0..MaxInvert |-> NoSample]
    /\ img = NoPage /\ orig = NoPage /\ obs = NoPage /\ scans = 0

\* shouldInvert(buf), with the counters of its loop kept for inspection
FnShouldInvert ==
    /\ sampled[inverted] = NoSample
    /\ sampled' = [sampled EXCEPT ![inverted] =
                     [samples |-> Sample(buf).samples,
                      brightPixels |-> Sample(buf).brightPixels,
                      offsets |-> Sample(buf).offsets,
                      verdict |-> shouldInvert(buf)]]
    /\ UNCHANGED <<buf, buf0, inverted, pageVars>>

\* invertImage(ctx, imageData) on the buffer
FnInvertImage ==
    /\ inverted < MaxInvert
    /\ buf' = invertImage(NoCanvas, buf).data
    /\ inverted' = inverted + 1
    /\ UNCHANGED <<buf0, sampled, pageVars>>

FnNext == FnShouldInvert \/ FnInvertImage

FnSpec == FnInit /\ [][FnNext]_vars

----------------------------------------------------------------------------
(* FaultSpec: the page in a browser where putImageData or toDataURL may    *)
(* throw                                                                   *)

\* fewer locators and sizes than Elements: the browser has more answers
FaultElements ==
    [naturalWidth : {MinSize}, naturalHeight : PageSizes,
     src : {SrcPng, SrcGifUpper},
     bitmap : PageBitmaps,
     crossOrigin : BOOLEAN,
     complete : BOOLEAN,
     processed : {"unset"},
     onload : {FALSE},
     style : {NoStyle}]

FaultInit ==
    /\ img \in [Imgs -> FaultElements]
    /\ orig = img
    /\ obs = [i \in Imgs |-> NoObs]
    /\ scans = 0
    /\ buf = <<>> /\ buf0 = <<>> /\ inverted = 0 /\ sampled = <<>>

FaultScan == ScanAll(FaultEnvs)

FaultLoad(i) == LoadWith(i, FaultEnvs)

FaultNext == FaultScan \/ \E i \in Imgs : FaultLoad(i)

FaultSpec == FaultInit /\ [][FaultNext]_vars

----------------------------------------------------------------------------
(* FeedSpec: the page with one eligible same-origin element whose bitmap   *)
(* ranges over the buffers of FnSpec, to follow what happens after its     *)
(* source is replaced                                                      *)

\* every choice of the pixels shouldInvert visits, up to MaxPixels pixels
FeedBuffers ==
    UNION { { Flatten(PixelsOf(n, visited, Dark)) :
                visited \in [1..VisitedCount(n) -> Palette] }
            : n \in 0..MaxPixels }

FeedElements ==
    [naturalWidth : {MinSize}, naturalHeight : {MinSize},
     src : {SrcPng},
     bitmap : FeedBuffers,
     crossOrigin : {FALSE},
     complete : {FALSE},
     processed : {"unset"},
     onload : {FALSE},
     style : {NoStyle}]

FeedOther ==
    [naturalWidth |-> MinSize, naturalHeight |-> MinSize, src |-> SrcPng,
     bitmap |-> Photo, crossOrigin |-> FALSE, complete |-> TRUE,
     processed |-> "unset", onload |-> FALSE, style |-> NoStyle]

FeedInit ==
    /\ \E first \in FeedElements :
          img = [i \in Imgs |-> IF i = 1 THEN first ELSE FeedOther]
    /\ orig = img
    /\ obs = [i \in Imgs |-> NoObs]
    /\ scans = 0
    /\ buf = <<>> /\ buf0 = <<>> /\ inverted = 0 /\ sampled = <<>>

FeedSpec == FeedInit /\ [][Next]_vars

----------------------------------------------------------------------------
(* Properties of the pixel functions (FnSpec) *)

\* the buffer shouldInvert was given when sampled[k] was recorded: buffers
\* keep their length under invertImage, and sampled[inverted] is of buf
PixelCount(data) == Len(data) \div 4

VisitedPixels(data) == { p \in 0..(PixelCount(data) - 1) : p % 5 = 0 }

ChannelSum(data, p) == data[4 * p + 1] + data[4 * p + 2] + data[4 * p + 3]

BrightVisited(data) == { p \in VisitedPixels(data) : ChannelSum(data, p) > 600 }

IsAlphaIndex(k) == k % 4 = 0

\* C7: invertImage is self-inverse and alpha-preserving: two applications
\* restore every byte, one application maps each red, green, blue value v
\* to 255 - v, leaves every alpha byte as it was and every byte in 0..255.
C7_InversionSelfInverseAlphaKept ==
    /\ Len(buf) = Len(buf0)
    /\ \A k \in 1..Len(buf) : buf[k] \in 0..255
    /\ \A k \in 1..Len(buf) : IsAlphaIndex(k) => buf[k] = buf0[k]
    /\ inverted % 2 = 0 => buf = buf0
    /\ inverted % 2 = 1 =>
         \A k \in 1..Len(buf) : ~IsAlphaIndex(k) => buf[k] = 255 - buf0[k]

\* a buffer of several pixels, one of them neither opaque nor transparent,
\* has been inverted twice
C7_Witness ==
    /\ inverted = 2
    /\ PixelCount(buf0) >= 2
    /\ \E k \in 1..Len(buf0) : IsAlphaIndex(k) /\ buf0[k] = 128
    /\ buf = buf0

\* C9: on a buffer of N >= 1 pixels shouldInvert takes exactly ceil(N / 5)
\* samples, at the byte offsets 0, 20, 40, ... below 4N, each the red byte
\* of a pixel whose green and blue bytes are inside the buffer.
C9_SampleCountIsCeilOfFifth ==
    \A k \in 0..inverted :
        (sampled[k] # NoSample /\ PixelCount(buf) >= 1) =>
            /\ sampled[k].samples = (PixelCount(buf) + 4) \div 5
            /\ sampled[k].offsets = { o \in 0..(4 * PixelCount(buf) - 1) : o % 20 = 0 }
            /\ \A o \in sampled[k].offsets : o % 4 = 0 /\ o + 2 < Len(buf)

\* 21 pixels have been sampled 5 times, 6 pixels twice
C9_Witness ==
    /\ sampled[0] # NoSample
    /\ PixelCount(buf) = 21
    /\ sampled[0].samples = 5
    /\ sampled[0].offsets = {0, 20, 40, 60, 80}

----------------------------------------------------------------------------
(* Properties of the page (Spec) *)

\* the verdict as the specification words it, on a bitmap
ClaimedVerdict(data) ==
    5 * Cardinality(BrightVisited(data)) > 3 * Cardinality(VisitedPixels(data))

\* every pixel with red, green and blue replaced by 255 minus the value
ClaimedInversion(data) ==
    [k \in 1..Len(data) |-> IF IsAlphaIndex(k) THEN data[k] ELSE 255 - data[k]]

\* the locator ends in ".gif" in any mix of cases
ClaimedGif(src) ==
    /\ Len(src) >= 4
    /\ src[Len(src) - 3] = "."
    /\ src[Len(src) - 2] \in {"g", "G"}
    /\ src[Len(src) - 1] \in {"i", "I"}
    /\ src[Len(src)] \in {"f", "F"}

ClaimedSmall(el) == el.naturalWidth < 120 \/ el.naturalHeight < 120

Untouched(i) ==
    /\ img[i].src = orig[i].src
    /\ img[i].style = orig[i].style
    /\ img[i].bitmap = orig[i].bitmap

\* C1: every element enters processImage at most once, whatever load
\* events follow the scan (the load event after a source replacement
\* included).
C1_EnteredAtMostOnce == \A i \in Imgs : obs[i].entries <= 1

\* C2: an image with natural width < 120 or natural height < 120 is marked
\* and nothing else: no canvas, no draw, no readback, no classification,
\* source and style as the page gave them, cross-origin images included.
C2_SmallImageOnlyMarked ==
    \A i \in Imgs :
        ClaimedSmall(orig[i]) =>
            /\ obs[i].did = {}
            /\ Untouched(i)
            /\ obs[i].entries >= 1 => img[i].processed = "true"

\* a cross-origin image small in one dimension only has been processed
C2_Witness ==
    \E i \in Imgs :
        /\ orig[i].naturalWidth = 119 /\ orig[i].naturalHeight = 120
        /\ orig[i].crossOrigin
        /\ obs[i].entries = 1
        /\ img[i].processed = "true"

\* C4: when the draw or the readback of an eligible image is denied, the
\* element gets the fixed filter with priority "important" and a black
\* background, its source is unchanged and the classifier has not run; the
\* result is the same for a denial at the draw and at the readback, and
\* for every bitmap.
C4_DenialGivesFallback ==
    \A i \in Imgs :
        obs[i].denied # "none" =>
            /\ img[i].style =
                 [filter |-> "invert(1) hue-rotate(180deg) brightness(1.1) contrast(1.1)",
                  priority |-> "important", backgroundColor |-> "black"]
            /\ img[i].src = orig[i].src
            /\ img[i].bitmap = orig[i].bitmap
            /\ img[i].processed = "true"
            /\ obs[i].did \cap {"shouldInvert", "invertImage", "putImageData",
                                "toDataURL"} = {}
            /\ "applyCssFallback" \in obs[i].did

\* one element denied at the draw and one at the readback, with different
\* bitmaps, carry the same style
C4_Witness ==
    \E i, j \in Imgs :
        /\ obs[i].denied = "draw" /\ obs[j].denied = "read"
        /\ orig[i].bitmap = BrightDoc /\ orig[j].bitmap = Photo
        /\ img[i].style = img[j].style
        /\ img[i].style # NoStyle

\* C5: an eligible image whose pixels were read and whose verdict is
\* "should invert" has its source replaced by the encoding of the surface
\* with every pixel inverted (alpha kept); once that source has loaded the
\* element shows the inverted bitmap; its style is untouched and it is
\* marked.
C5_BrightImageSourceReplaced ==
    \A i \in Imgs :
        ( /\ ~ClaimedSmall(orig[i]) /\ ~ClaimedGif(orig[i].src)
          /\ "getImageData" \in obs[i].did
          /\ obs[i].denied = "none"
          /\ ClaimedVerdict(orig[i].bitmap) ) =>
            /\ img[i].src = DataUrlPrefix \o Encode(ClaimedInversion(orig[i].bitmap))
            /\ img[i].complete => img[i].bitmap = ClaimedInversion(orig[i].bitmap)
            /\ img[i].style = orig[i].style
            /\ img[i].processed = "true"

\* a bright image has been inverted and its new source has loaded
C5_Witness ==
    \E i \in Imgs :
        /\ "toDataURL" \in obs[i].did
        /\ orig[i].bitmap = BrightDoc
        /\ img[i].src # orig[i].src
        /\ img[i].complete
        /\ img[i].bitmap # orig[i].bitmap

\* C6: a run of processImage that reads the pixels of an image whose
\* verdict is "should not invert" changes the marker and nothing else:
\* source, style and bitmap stay, and nothing is written back.
C6_KeptImageOnlyMarked ==
    [][\A i \in Imgs :
          ( /\ obs'[i].entries = obs[i].entries + 1
            /\ "shouldInvert" \in obs'[i].steps
            /\ ~ClaimedVerdict(img'[i].bitmap) ) =>
              /\ img'[i].src = img[i].src
              /\ img'[i].style = img[i].style
              /\ img'[i].processed = "true"
              /\ obs'[i].steps \cap {"invertImage", "putImageData", "toDataURL",
                                     "applyCssFallback"} = {}]_vars

\* an eligible image with dark samples has been classified and kept
C6_Witness ==
    \E i \in Imgs :
        /\ orig[i].bitmap = Photo
        /\ obs[i].entries = 1
        /\ obs[i].outcome = "kept"
        /\ "shouldInvert" \in obs[i].steps
        /\ Untouched(i)
        /\ img[i].processed = "true"

\* C8: an image whose locator ends in ".gif" in any mix of cases is never
\* rendered: no canvas, no draw, no readback, source and style unchanged,
\* and it is marked once processImage has seen it.
C8_GifNeverRendered ==
    \A i \in Imgs :
        ClaimedGif(orig[i].src) =>
            /\ obs[i].did = {}
            /\ Untouched(i)
            /\ obs[i].entries >= 1 => img[i].processed = "true"

\* large images named .GIF and .Gif have been processed
C8_Witness ==
    \E i, j \in Imgs :
        /\ orig[i].src = SrcGifUpper /\ orig[j].src = SrcGifMixed
        /\ ~ClaimedSmall(orig[i]) /\ ~ClaimedSmall(orig[j])
        /\ ~orig[i].crossOrigin
        /\ obs[i].entries = 1 /\ obs[j].entries = 1
        /\ img[i].processed = "true" /\ img[j].processed = "true"

\* C10: a run of the scanner leaves every element that carries the marker
\* exactly as it is (not handed to processImage, no callback registered),
\* and a scan after the first hands no element to processImage.
C10_ScanSkipsMarked ==
    [][scans' = scans + 1 =>
          /\ \A i \in Imgs :
                img[i].processed = "true" => img'[i] = img[i] /\ obs'[i] = obs[i]
          /\ scans >= 1 => \A i \in Imgs : obs'[i].entries = obs[i].entries]_vars

\* the scan has run twice over a page with a processed element
C10_Witness ==
    /\ scans = 2
    /\ \E i \in Imgs : obs[i].entries = 1 /\ img[i].processed = "true"
                        /\ obs[i].outcome = "kept"

\* C11: at a scan, an unmarked element that has finished loading is
\* processed and marked before the scan returns; one that has not is left
\* unprocessed and unmarked with the callback registered, stays so until
\* its load event, and that event processes and marks it.
C11_LoadedNowOthersOnLoad ==
    [][\A i \in Imgs :
          /\ (scans' = scans + 1 /\ img[i].processed # "true") =>
                IF img[i].complete
                THEN /\ img'[i].processed = "true"
                     /\ obs'[i].entries = obs[i].entries + 1
                ELSE /\ img'[i].processed # "true"
                     /\ obs'[i] = obs[i]
                     /\ img'[i] = [img[i] EXCEPT !.onload = TRUE]
          /\ (scans' = scans /\ img[i].processed # "true" /\ img'[i] # img[i]) =>
                /\ ~img[i].complete
                /\ img'[i].processed = "true"
                /\ obs'[i].entries = obs[i].entries + 1]_vars

\* after one scan, an element that was loaded at the scan and one that
\* loaded later have both been processed once
C11_Witness ==
    /\ scans = 1
    /\ \E i, j \in Imgs :
        /\ orig[i].complete /\ ~orig[j].complete
        /\ img[i].processed = "true" /\ obs[i].entries = 1
        /\ img[j].processed = "true" /\ obs[j].entries = 1 /\ img[j].onload

\* C13: when getContext gives no context for an eligible image, the run
\* stops there: no fallback, no draw, no readback, no classification,
\* source and style unchanged, marker set; and the element is never
\* touched again.
C13_NoContextAbandons ==
    [][\A i \in Imgs :
          /\ (obs'[i].entries = obs[i].entries + 1 /\ obs'[i].outcome = "noctx") =>
                /\ img'[i].src = img[i].src
                /\ img'[i].style = img[i].style
                /\ img'[i].processed = "true"
                /\ obs'[i].steps = {"createElement", "getContext"}
          /\ obs[i].outcome = "noctx" => img'[i] = img[i] /\ obs'[i] = obs[i]]_vars

\* a cross-origin image got no context, and a second scan has passed
C13_Witness ==
    /\ scans = 2
    /\ \E i \in Imgs :
        /\ obs[i].outcome = "noctx" /\ obs[i].entries = 1
        /\ orig[i].crossOrigin
        /\ Untouched(i)
        /\ img[i].processed = "true"

\* C14: no element has both its source replaced by the pixel path and the
\* fallback style applied.
C14_PathsExclusive ==
    \A i \in Imgs :
        /\ ~(img[i].src # orig[i].src /\ img[i].style # orig[i].style)
        /\ ~({"toDataURL", "applyCssFallback"} \subseteq obs[i].did)

\* both paths have been taken, on different elements
C14_Witness ==
    \E i, j \in Imgs :
        /\ img[i].src # orig[i].src /\ "toDataURL" \in obs[i].did
        /\ img[j].style # orig[j].style /\ "applyCssFallback" \in obs[j].did

\* what an element must look like once processed, from its own dimensions,
\* locator, pixels and access results alone
ExpectedSrc(o, gotContext) ==
    IF /\ ~ClaimedSmall(o) /\ ~ClaimedGif(o.src) /\ gotContext
       /\ ~o.crossOrigin /\ ClaimedVerdict(o.bitmap)
    THEN DataUrlPrefix \o Encode(ClaimedInversion(o.bitmap))
    ELSE o.src

ExpectedStyle(o, gotContext) ==
    IF ~ClaimedSmall(o) /\ ~ClaimedGif(o.src) /\ gotContext /\ o.crossOrigin
    THEN [filter |-> "invert(1) hue-rotate(180deg) brightness(1.1) contrast(1.1)",
          priority |-> "important", backgroundColor |-> "black"]
    ELSE o.style

\* C15: whatever the order of the load events among themselves and with
\* the scans, an element that has loaded is marked, and a processed
\* element has the source and style its own dimensions, locator, pixels
\* and access results determine.
C15_OutcomeIndependentOfOrder ==
    \A i \in Imgs :
        /\ (scans >= 1 /\ img[i].complete) => img[i].processed = "true"
        /\ obs[i].entries >= 1 =>
              /\ img[i].processed = "true"
              /\ img[i].src = ExpectedSrc(orig[i], "drawImage" \in obs[i].did)
              /\ img[i].style = ExpectedStyle(orig[i], "drawImage" \in obs[i].did)

\* the later element of two late-loading ones has been processed while the
\* earlier one is still loading
C15_Witness ==
    \E i, j \in Imgs :
        /\ i < j
        /\ ~orig[i].complete /\ ~orig[j].complete
        /\ ~img[i].complete /\ obs[i].entries = 0
        /\ obs[j].entries = 1 /\ img[j].src # orig[j].src

\* C17: a marker that is set stays set, and an element whose source or
\* style differs from what the page supplied carries the marker.
C17_MarkerMonotoneAndFirst ==
    [][\A i \in Imgs :
          /\ img[i].processed = "true" => img'[i].processed = "true"
          /\ (img'[i].src # orig'[i].src \/ img'[i].style # orig'[i].style) =>
                img'[i].processed = "true"]_vars

\* one element with a replaced source and one with the fallback style,
\* both marked
C17_Witness ==
    \E i, j \in Imgs :
        /\ img[i].src # orig[i].src /\ img[i].processed = "true"
        /\ img[j].style # orig[j].style /\ img[j].processed = "true"
        /\ obs[i].entries = 2

\* C12: no exception leaves the scan or a load callback, whatever happens
\* to one image (rejection, no context, denied draw or readback, a failing
\* write-back or re-encoding), and after the scan every element present is
\* either processed or has its completion callback.
C12_FailuresAreLocal ==
    /\ \A i \in Imgs : obs[i].outcome # "threw"
    /\ scans >= 1 => \A i \in Imgs : img[i].processed = "true" \/ img[i].onload

\* C16: inversion does not feed back: the verdict on the bitmap of a
\* replaced source is "should not invert", so a source is replaced at most
\* once, no element enters processImage more than twice, and an element
\* that is marked and loaded is never changed again.
C16_InversionNeverFeedsBack ==
    [][\A i \in Imgs :
          /\ img[i].src # orig[i].src => img'[i].src = img[i].src
          /\ ( /\ obs'[i].entries = obs[i].entries + 1
               /\ img[i].src # orig[i].src
               /\ "shouldInvert" \in obs'[i].steps ) => obs'[i].outcome = "kept"
          /\ obs'[i].entries <= 2
          /\ (img[i].complete /\ img[i].processed = "true") =>
                img'[i] = img[i] /\ obs'[i] = obs[i]]_vars

\* a 21-pixel image with 4 of 5 samples bright was inverted, entered
\* processImage again from its load handler with 1 of 5 samples bright,
\* and was kept
C16_Witness ==
    \E i \in Imgs :
        /\ PixelCount(orig[i].bitmap) = 21
        /\ Cardinality(BrightVisited(orig[i].bitmap)) = 4
        /\ img[i].src # orig[i].src
        /\ img[i].complete
        /\ Cardinality(BrightVisited(img[i].bitmap)) = 1
        /\ obs[i].entries = 2
        /\ obs[i].outcome = "kept"

====
